---- MODULE Spec2Model ----
(***************************************************************************)
(* Sorted approximate joins of MsCoreUtils (src/src/join.c) as a state       *)
(* machine: one call of one entry point on one input, one step per loop     *)
(* iteration.  Numeric values are integers (exact arithmetic); C arrays are *)
(* functions over 0-based positions whose domain is the set of positions    *)
(* written so far.  The scan loops of C_join_outer and C_join_left in       *)
(* src/src/init.c:65-138 and 195-239 are the same text as join.c:115-188    *)
(* and 245-289; the truncation of C_join_outer differs between the two      *)
(* files (init.c:148, join.c:198) and is modelled once per file.            *)
(***************************************************************************)
EXTENDS Integers, Sequences, FiniteSets, TLC

\* ---- bounds of the explored inputs ----
MaxLen == 2
MaxVal == 3
MaxTol == 2

\* ---- program constants ----
NA_INTEGER == -2147483647 - 1
\* +Inf: larger than every distance between two input values
R_PosInf == 1000000
IntMax == 2147483647

VARIABLES fn, x, y, tolerance, nomatch, pc, loc, resx, resy, outx, outy, tolRead, prev, nretro, trim

vars == <<fn, x, y, tolerance, nomatch, pc, loc, resx, resy, outx, outy, tolRead, prev, nretro, trim>>

\* ---- helpers ----
fabs(d) == IF d < 0 THEN 0 - d ELSE d

LENGTH(s) == Len(s)

\* C arrays are 0-based, R vectors 1-based sequences.
At(s, k) == s[k + 1]

\* a[k] = v on a working buffer; the domain records the written positions.
Store(a, k, v) == [p \in (DOMAIN a) \cup {k} |-> IF p = k THEN v ELSE a[p]]

\* The first len positions of a buffer as an R vector; a position never
\* written holds whatever the allocator left there (g).
AsVector(a, len, g) == [k \in 1..len |-> IF (k - 1) \in DOMAIN a THEN a[k - 1] ELSE g]

EmptyBuf == [p \in {} |-> 0]

\* unsigned int u = (int) v, and back: a 32-bit unsigned value is kept as its
\* top bit and its low 31 bits.
ToUnsigned(v) == IF v < 0 THEN [hi |-> 1, lo |-> (v + IntMax) + 1] ELSE [hi |-> 0, lo |-> v]
ToInt(u) == IF u.hi = 1 THEN (u.lo - IntMax) - 1 ELSE u.lo

\* History of the scan, kept for stating properties only: what the previous
\* iteration was (kind), which cursor it advanced (adv) and the value of
\* i_path it found (path), and how many times the output index was stepped
\* back.
Step(k, a) ==
    [kind |-> k, adv |-> a,
     path |-> IF "i_path" \in DOMAIN loc THEN loc.i_path ELSE 0]

\* ---- inputs ----
AscSeqs(n) == {s \in [1..n -> 0..MaxVal] : \A k \in 1..(n - 1) : s[k] <= s[k + 1]}

SortedSeqs == UNION {AscSeqs(n) : n \in 0..MaxLen}

TolSeqs == UNION {[1..n -> 0..MaxTol] : n \in 0..MaxLen}

\* Scenarios of the design document (values scaled to integers), the chain
\* inputs of issue #66, and inputs on which C_join_outer looks ahead twice in
\* a row on the same cursor (which needs three elements on that side), alone
\* and before or after a change of direction.
Scenarios ==
    { << <<1, 2, 3>>, <<1, 2, 3>>, <<0, 0, 0>> >>,
      << <<1, 5>>, <<3>>, <<0, 0>> >>,
      << <<20, 22>>, <<21>>, <<4, 4>> >>,
      << <<10, 19, 30>>, <<9, 20, 31>>, <<3, 3, 3>> >>,
      << <<0, 5, 6>>, <<3, 6>>, <<3, 3, 3>> >>,
      << <<0, 3>>, <<2, 4>>, <<2, 1>> >>,
      << <<0, 4, 5>>, <<5>>, <<5, 1, 0>> >>,
      << <<5>>, <<0, 4, 5>>, <<5>> >>,
      << <<0, 1, 4>>, <<3, 4>>, <<3, 2, 1>> >>,
      << <<0, 5>>, <<3, 4, 5>>, <<3, 2>> >>,
      << <<3, 4, 5>>, <<0, 5>>, <<3, 1, 0>> >> }

\* tolerances of the wrong length are explored with all entries equal
ConstantTol == {u \in TolSeqs : \A k \in DOMAIN u : u[k] = u[1]}

\* the arguments of a call: a tolerance with one entry per element of left,
\* a tolerance of the wrong length, or one of the scenarios
Arguments(a, b, t) ==
    \/ /\ a \in SortedSeqs /\ b \in SortedSeqs
       /\ t \in [1..Len(a) -> 0..MaxTol]
    \/ /\ a \in SortedSeqs /\ b \in SortedSeqs
       /\ t \in ConstantTol /\ Len(t) # Len(a)
    \/ \E inp \in Scenarios : a = inp[1] /\ b = inp[2] /\ t = inp[3]

\* the self-contained scans, and the joins built on the duplicate resolver
ScanFns == {"C_join_outer", "C_join_left", "C_join_outer2"}
ResolverFns == {"C_join_left2", "C_join_inner2"}

WithNomatch == {"C_join_outer2", "C_join_left2", "C_join_inner2"}

NoMatchVals == {NA_INTEGER, -1}

\* Values an out-of-bounds or uninitialised read may produce.  A double read
\* past the end of tolerance is whatever the heap holds: a negative value or
\* NaN (no distance is <= it), a value of the range of the inputs, or a value
\* larger than every distance.
GarbageTol == {-1} \cup (0..MaxTol) \cup {R_PosInf}
GarbageInt == {NA_INTEGER, 0}

\* What the truncation step of C_join_outer did: which copy of the function
\* ran, the length of the result vectors it allocated, the working-buffer
\* positions it loaded and the result positions it stored.
NotTrimmed == [copy |-> "none", len |-> 0, read |-> {}, wrote |-> {}]
Trimmed(copy, len, copied) ==
    [copy |-> copy, len |-> len, read |-> copied, wrote |-> copied]

Call(fns) ==
    /\ fn \in fns
    /\ Arguments(x, y, tolerance)
    /\ nomatch \in (IF fn \in WithNomatch THEN NoMatchVals ELSE {NA_INTEGER})
    /\ pc = "call"
    /\ loc = [idx |-> 0]
    /\ resx = EmptyBuf
    /\ resy = EmptyBuf
    /\ outx = <<>>
    /\ outy = <<>>
    /\ tolRead = FALSE
    /\ prev = Step("none", "none")
    /\ nretro = 0
    /\ trim = NotTrimmed

lx == LENGTH(x)
ly == LENGTH(y)

\* tol[k]: reading past the end of the vector yields an arbitrary value.
TolAt(k) == IF k < LENGTH(tolerance) THEN {At(tolerance, k)} ELSE GarbageTol

\* ======================= C_join_outer ===================================
\* join.c:131 (and 257, 333): the acceptance test of a pair
WithinTol_Loose(d, t) == d <= t + 1
WithinTol(d, t) == d <= t

\* join.c:139-140 (and 246, 248)
xi_next_ZeroBased == loc.xi
xi_next == loc.xi + 1
yi_next == loc.yi + 1

\* join.c:100-101
OuterLengthMismatch == lx # LENGTH(tolerance)

OuterError ==
    /\ pc = "call" /\ fn = "C_join_outer"
    /\ OuterLengthMismatch
    /\ pc' = "error"
    /\ UNCHANGED <<fn, x, y, tolerance, nomatch, loc, resx, resy, outx, outy, tolRead, prev, nretro, trim>>

OuterEnter ==
    /\ pc = "call" /\ fn = "C_join_outer"
    /\ ~OuterLengthMismatch
    /\ pc' = "scan"
    /\ loc' = [idx |-> -1, xi |-> 0, yi |-> 0, i_path |-> 0]
    /\ UNCHANGED <<fn, x, y, tolerance, nomatch, resx, resy, outx, outy, tolRead, prev, nretro, trim>>

OuterScan == pc = "scan" /\ fn = "C_join_outer" /\ (loc.xi < lx \/ loc.yi < ly)

\* the look-ahead distances of join.c:130-146
idiff == fabs(At(x, loc.xi) - At(y, loc.yi))
xdiff == IF loc.xi + 1 < lx THEN fabs(At(x, loc.xi + 1) - At(y, loc.yi)) ELSE R_PosInf
ydiff == IF loc.yi + 1 < ly THEN fabs(At(x, loc.xi) - At(y, loc.yi + 1)) ELSE R_PosInf

OuterBetterAhead_OnTies == xdiff <= idiff \/ ydiff <= idiff
OuterBetterAhead == xdiff < idiff \/ ydiff < idiff
OuterTakeX == xdiff < ydiff
OuterRetroX_FromStart == loc.i_path >= 0
OuterRetroX_AnyLook == loc.i_path # 0
OuterRetroX == loc.i_path > 0
OuterRetroY == loc.i_path < 0

\* join.c:117-122
OuterDrainY ==
    /\ OuterScan
    /\ loc.xi >= lx
    /\ LET idx == loc.idx + 1
           yi == loc.yi + 1
       IN /\ resx' = Store(resx, idx, NA_INTEGER)
          /\ resy' = Store(resy, idx, yi)
          /\ loc' = [loc EXCEPT !.idx = idx, !.yi = yi]
    /\ prev' = Step("drain", "y")
    /\ UNCHANGED <<fn, x, y, tolerance, nomatch, pc, outx, outy, tolRead, nretro, trim>>

\* join.c:123-128
OuterDrainX ==
    /\ OuterScan
    /\ loc.xi < lx /\ loc.yi >= ly
    /\ LET idx == loc.idx + 1
           xi == loc.xi + 1
       IN /\ resx' = Store(resx, idx, xi)
          /\ resy' = Store(resy, idx, NA_INTEGER)
          /\ loc' = [loc EXCEPT !.idx = idx, !.xi = xi]
    /\ prev' = Step("drain", "x")
    /\ UNCHANGED <<fn, x, y, tolerance, nomatch, pc, outx, outy, tolRead, nretro, trim>>

\* join.c:130-172, one iteration with the current pair within tolerance
OuterWithin ==
    /\ OuterScan
    /\ loc.xi < lx /\ loc.yi < ly
    /\ \E t \in TolAt(loc.xi) :
          /\ WithinTol(idiff, t)
          /\ LET idx == loc.idx + 1
                 px == Store(resx, idx, xi_next)
                 py == Store(resy, idx, yi_next)
             IN IF OuterBetterAhead
                THEN IF OuterTakeX
                     THEN /\ IF OuterRetroX
                             THEN /\ resx' = Store(px, idx - 1, xi_next)
                                  /\ resy' = py
                                  /\ loc' = [loc EXCEPT !.idx = idx - 1, !.xi = xi_next,
                                                        !.i_path = -1]
                                  /\ nretro' = nretro + 1
                             ELSE /\ resx' = px
                                  /\ resy' = Store(py, idx, NA_INTEGER)
                                  /\ loc' = [loc EXCEPT !.idx = idx, !.xi = xi_next,
                                                        !.i_path = -1]
                                  /\ nretro' = nretro
                          /\ prev' = Step("look", "x")
                     ELSE /\ IF OuterRetroY
                             THEN /\ resx' = px
                                  /\ resy' = Store(py, idx - 1, yi_next)
                                  /\ loc' = [loc EXCEPT !.idx = idx - 1, !.yi = yi_next,
                                                        !.i_path = 1]
                                  /\ nretro' = nretro + 1
                             ELSE /\ resx' = Store(px, idx, NA_INTEGER)
                                  /\ resy' = py
                                  /\ loc' = [loc EXCEPT !.idx = idx, !.yi = yi_next,
                                                        !.i_path = 1]
                                  /\ nretro' = nretro
                          /\ prev' = Step("look", "y")
                ELSE /\ resx' = px
                     /\ resy' = py
                     /\ loc' = [loc EXCEPT !.idx = idx, !.xi = xi_next, !.yi = yi_next,
                                           !.i_path = 0]
                     /\ prev' = Step("pair", "xy")
                     /\ nretro' = nretro
    /\ tolRead' = TRUE
    /\ UNCHANGED <<fn, x, y, tolerance, nomatch, pc, outx, outy, trim>>

\* join.c:173-187, the current pair is not within tolerance
OuterApart ==
    /\ OuterScan
    /\ loc.xi < lx /\ loc.yi < ly
    /\ \E t \in TolAt(loc.xi) :
          /\ ~(WithinTol(idiff, t))
          /\ LET idx == loc.idx + 1
             IN IF At(x, loc.xi) < At(y, loc.yi)
                THEN /\ resx' = Store(resx, idx, loc.xi + 1)
                     /\ resy' = Store(resy, idx, NA_INTEGER)
                     /\ loc' = [loc EXCEPT !.idx = idx, !.xi = loc.xi + 1, !.i_path = 0]
                     /\ prev' = Step("apart", "x")
                ELSE /\ resx' = Store(resx, idx, NA_INTEGER)
                     /\ resy' = Store(resy, idx, loc.yi + 1)
                     /\ loc' = [loc EXCEPT !.idx = idx, !.yi = loc.yi + 1, !.i_path = 0]
                     /\ prev' = Step("apart", "y")
    /\ tolRead' = TRUE
    /\ UNCHANGED <<fn, x, y, tolerance, nomatch, pc, outx, outy, nretro, trim>>

\* join.c:190-212, trim the working buffers to the emitted rows
OuterRows_OneMore == loc.idx + 2
OuterRows == loc.idx + 1

\* join.c:198 and init.c:148, the positions the copy loop visits: the copy in
\* join.c runs "xi < idx", the copy in init.c runs "xi <= idx".
OuterCopied == 0..(OuterRows - 1)
OuterCopied_init == 0..OuterRows

\* join.c:190-212
OuterTruncate ==
    /\ pc = "scan" /\ fn = "C_join_outer"
    /\ ~(loc.xi < lx \/ loc.yi < ly)
    /\ LET idx == OuterRows
       IN /\ \E g \in GarbageInt :
                /\ outx' = AsVector(resx, idx, g)
                /\ outy' = AsVector(resy, idx, g)
          /\ loc' = [loc EXCEPT !.idx = idx]
          /\ trim' = Trimmed("join.c", idx, OuterCopied)
    /\ pc' = "done"
    /\ UNCHANGED <<fn, x, y, tolerance, nomatch, resx, resy, tolRead, prev, nretro>>

\* init.c:140-162, the second copy of C_join_outer.  Its loop also copies
\* position idx: a store one past the end of both result vectors, and a load
\* past the end of the working buffers when idx = n + m.  The call then
\* either returns the idx rows or faults.
OuterTruncate_init ==
    /\ pc = "scan" /\ fn = "C_join_outer"
    /\ ~(loc.xi < lx \/ loc.yi < ly)
    /\ LET idx == OuterRows
       IN /\ loc' = [loc EXCEPT !.idx = idx]
          /\ trim' = Trimmed("init.c", idx, OuterCopied_init)
          /\ \/ /\ \E g \in GarbageInt :
                      /\ outx' = AsVector(resx, idx, g)
                      /\ outy' = AsVector(resy, idx, g)
                /\ pc' = "done"
             \/ /\ pc' = "fault"
                /\ UNCHANGED <<outx, outy>>
    /\ UNCHANGED <<fn, x, y, tolerance, nomatch, resx, resy, tolRead, prev, nretro>>

\* ======================= C_join_left ====================================
\* join.c:227-228
LeftLengthMismatch == lx # LENGTH(tolerance)

\* int xi_last_used = R_PosInf (join.c:243): the conversion of +Inf to int is
\* undefined; builds produce INT_MAX or INT_MIN.
PosInfAsInt == {IntMax, NA_INTEGER}

LeftError ==
    /\ pc = "call" /\ fn = "C_join_left"
    /\ LeftLengthMismatch
    /\ pc' = "error"
    /\ UNCHANGED <<fn, x, y, tolerance, nomatch, loc, resx, resy, outx, outy, tolRead, prev, nretro, trim>>

LeftEnter ==
    /\ pc = "call" /\ fn = "C_join_left"
    /\ ~LeftLengthMismatch
    /\ pc' = "scan"
    /\ \E u \in PosInfAsInt :
          loc' = [xi |-> 0, yi |-> 0, yi_last_used |-> -1, xi_last_used |-> u]
    /\ UNCHANGED <<fn, x, y, tolerance, nomatch, resx, resy, outx, outy, tolRead, prev, nretro, trim>>

\* join.c:262
LeftSameHit == loc.yi = loc.yi_last_used /\ loc.xi > loc.xi_last_used
\* join.c:264
LeftRetract == ydiff > idiff \/ ydiff > xdiff
\* join.c:274, 276
LeftBetterAhead == xdiff < idiff \/ ydiff < idiff
LeftTakeX == xdiff < ydiff

\* join.c:246-282, one iteration while y is not exhausted
LeftStep ==
    /\ pc = "scan" /\ fn = "C_join_left"
    /\ loc.xi < lx /\ loc.yi < ly
    /\ \E t \in TolAt(loc.xi) :
          LET match == WithinTol(idiff, t)
              py == Store(resy, loc.xi, IF match THEN yi_next ELSE NA_INTEGER)
              nxi == IF LeftBetterAhead /\ ~LeftTakeX THEN loc.xi ELSE xi_next
              nyi == IF LeftBetterAhead /\ LeftTakeX THEN loc.yi ELSE yi_next
          IN /\ resx' = Store(resx, loc.xi, xi_next)
             /\ resy' = IF match /\ LeftSameHit /\ LeftRetract
                        THEN Store(py, loc.xi_last_used, NA_INTEGER)
                        ELSE py
             /\ loc' = [xi |-> nxi, yi |-> nyi,
                        yi_last_used |-> IF match THEN loc.yi ELSE loc.yi_last_used,
                        xi_last_used |-> IF match THEN loc.xi ELSE loc.xi_last_used]
             /\ prev' = Step(IF match THEN "match" ELSE "nomatch",
                             IF nxi = loc.xi THEN "y" ELSE IF nyi = loc.yi THEN "x" ELSE "xy")
    /\ tolRead' = TRUE
    /\ UNCHANGED <<fn, x, y, tolerance, nomatch, pc, outx, outy, nretro, trim>>

\* join.c:283-288, y is exhausted
LeftFill ==
    /\ pc = "scan" /\ fn = "C_join_left"
    /\ loc.xi < lx /\ loc.yi >= ly
    /\ resy' = Store(resy, loc.xi, NA_INTEGER)
    /\ resx' = Store(resx, loc.xi, xi_next)
    /\ loc' = [loc EXCEPT !.xi = xi_next]
    /\ prev' = Step("fill", "x")
    /\ UNCHANGED <<fn, x, y, tolerance, nomatch, pc, outx, outy, tolRead, nretro, trim>>

\* join.c:291-300
LeftReturn ==
    /\ pc = "scan" /\ fn = "C_join_left"
    /\ ~(loc.xi < lx)
    /\ \E g \in GarbageInt :
          /\ outx' = AsVector(resx, lx, g)
          /\ outy' = AsVector(resy, lx, g)
    /\ pc' = "done"
    /\ UNCHANGED <<fn, x, y, tolerance, nomatch, loc, resx, resy, tolRead, prev, nretro, trim>>

\* ======================= C_join_outer2 ==================================
\* join.c:311, and the conversion back at each prx[i] = inomatch
inomatch == ToUnsigned(nomatch)

\* join.c:303-320: no check of the tolerance length
Outer2Enter ==
    /\ pc = "call" /\ fn = "C_join_outer2"
    /\ pc' = "scan"
    /\ loc' = [i |-> 0, ix |-> 0, iy |-> 0]
    /\ UNCHANGED <<fn, x, y, tolerance, nomatch, resx, resy, outx, outy, tolRead, prev, nretro, trim>>

Outer2Scan == pc = "scan" /\ fn = "C_join_outer2" /\ (loc.ix < lx \/ loc.iy < ly)

\* join.c:331-340
diff == fabs(At(x, loc.ix) - At(y, loc.iy))
diffnxtx == IF loc.ix + 1 < lx THEN fabs(At(x, loc.ix + 1) - At(y, loc.iy)) ELSE R_PosInf
diffnxty == IF loc.iy + 1 < ly THEN fabs(At(x, loc.ix) - At(y, loc.iy + 1)) ELSE R_PosInf
diffnxtxy ==
    IF loc.ix + 1 < lx /\ loc.iy + 1 < ly
    THEN fabs(At(x, loc.ix + 1) - At(y, loc.iy + 1))
    ELSE R_PosInf

\* join.c:342-344
Outer2BetterAhead ==
    \/ (diffnxtx < diff /\ diffnxtx < diffnxtxy)
    \/ (diffnxty < diff /\ diffnxty < diffnxtxy)
Outer2TakeX == diffnxtx < diffnxty

\* the three row shapes an iteration of join.c:322-366 writes at position i
Outer2OnlyX ==
    /\ resx' = Store(resx, loc.i, loc.ix + 1)
    /\ resy' = Store(resy, loc.i, ToInt(inomatch))
    /\ loc' = [loc EXCEPT !.i = loc.i + 1, !.ix = loc.ix + 1]

Outer2OnlyY ==
    /\ resx' = Store(resx, loc.i, ToInt(inomatch))
    /\ resy' = Store(resy, loc.i, loc.iy + 1)
    /\ loc' = [loc EXCEPT !.i = loc.i + 1, !.iy = loc.iy + 1]

Outer2Both ==
    /\ resx' = Store(resx, loc.i, loc.ix + 1)
    /\ resy' = Store(resy, loc.i, loc.iy + 1)
    /\ loc' = [loc EXCEPT !.i = loc.i + 1, !.ix = loc.ix + 1, !.iy = loc.iy + 1]

\* join.c:323-325
Outer2DrainY ==
    /\ Outer2Scan
    /\ loc.ix >= lx
    /\ Outer2OnlyY
    /\ prev' = Step("drain", "y")
    /\ UNCHANGED <<fn, x, y, tolerance, nomatch, pc, outx, outy, tolRead, nretro, trim>>

\* join.c:326-328
Outer2DrainX ==
    /\ Outer2Scan
    /\ loc.ix < lx /\ loc.iy >= ly
    /\ Outer2OnlyX
    /\ prev' = Step("drain", "x")
    /\ UNCHANGED <<fn, x, y, tolerance, nomatch, pc, outx, outy, tolRead, nretro, trim>>

\* join.c:333-354
Outer2Within ==
    /\ Outer2Scan
    /\ loc.ix < lx /\ loc.iy < ly
    /\ \E t \in TolAt(loc.ix) :
          /\ WithinTol(diff, t)
          /\ IF Outer2BetterAhead
             THEN IF Outer2TakeX
                  THEN Outer2OnlyX /\ prev' = Step("look", "x")
                  ELSE Outer2OnlyY /\ prev' = Step("look", "y")
             ELSE Outer2Both /\ prev' = Step("pair", "xy")
    /\ tolRead' = TRUE
    /\ UNCHANGED <<fn, x, y, tolerance, nomatch, pc, outx, outy, nretro, trim>>

\* join.c:355-363
Outer2Apart ==
    /\ Outer2Scan
    /\ loc.ix < lx /\ loc.iy < ly
    /\ \E t \in TolAt(loc.ix) :
          /\ ~(WithinTol(diff, t))
          /\ IF At(x, loc.ix) < At(y, loc.iy)
             THEN Outer2OnlyX /\ prev' = Step("apart", "x")
             ELSE Outer2OnlyY /\ prev' = Step("apart", "y")
    /\ tolRead' = TRUE
    /\ UNCHANGED <<fn, x, y, tolerance, nomatch, pc, outx, outy, nretro, trim>>

\* join.c:333, the load of ptolerance[ix] past the end of tolerance may also
\* end the call with a memory fault
Outer2Fault ==
    /\ Outer2Scan
    /\ loc.ix < lx /\ loc.iy < ly
    /\ ~(loc.ix < LENGTH(tolerance))
    /\ pc' = "fault"
    /\ tolRead' = TRUE
    /\ UNCHANGED <<fn, x, y, tolerance, nomatch, loc, resx, resy, outx, outy, prev, nretro, trim>>

\* join.c:368-380
Outer2Return ==
    /\ pc = "scan" /\ fn = "C_join_outer2"
    /\ ~(loc.ix < lx \/ loc.iy < ly)
    /\ \E g \in GarbageInt :
          /\ outx' = AsVector(resx, loc.i, g)
          /\ outy' = AsVector(resy, loc.i, g)
    /\ pc' = "done"
    /\ UNCHANGED <<fn, x, y, tolerance, nomatch, loc, resx, resy, tolRead, prev, nretro, trim>>

\* ======================= C_closest_dup_closest ==========================
\* The duplicate resolver with the closest policy, from the design document
\* (its C source is not part of the two files modelled here).
\* the tolerance of left element i: one entry per element, or a scalar
ResolverTol(t, i) == IF Len(t) = 1 THEN t[1] ELSE t[i]

Acceptable(a, b, t, i) == {j \in 1..Len(b) : fabs(a[i] - b[j]) <= ResolverTol(t, i)}

BestMatch(a, b, t, i) ==
    CHOOSE j \in Acceptable(a, b, t, i) :
        \A k \in Acceptable(a, b, t, i) :
            \/ fabs(a[i] - b[j]) < fabs(a[i] - b[k])
            \/ (fabs(a[i] - b[j]) = fabs(a[i] - b[k]) /\ j <= k)

Claimed(a, b, t, i) == IF Acceptable(a, b, t, i) = {} THEN 0 ELSE BestMatch(a, b, t, i)

Outbid(a, b, t, i) ==
    \E k \in 1..Len(a) :
        /\ k # i
        /\ Claimed(a, b, t, k) = Claimed(a, b, t, i)
        /\ LET j == Claimed(a, b, t, i)
           IN \/ fabs(a[k] - b[j]) < fabs(a[i] - b[j])
              \/ (fabs(a[k] - b[j]) = fabs(a[i] - b[j]) /\ k < i)

C_closest_dup_closest(a, b, t, nm) ==
    [i \in 1..Len(a) |->
        IF Claimed(a, b, t, i) = 0 \/ Outbid(a, b, t, i) THEN nm ELSE Claimed(a, b, t, i)]

\* a tolerance that is neither a scalar nor of the length of left
ResolverLengthMismatch == LENGTH(tolerance) # 1 /\ LENGTH(tolerance) # lx

\* An R vector as a fully written 0-based C array.
AsBuffer(v) == [p \in 0..(Len(v) - 1) |-> v[p + 1]]

ResolverError ==
    /\ pc = "call" /\ fn \in {"C_join_left2", "C_join_inner2"}
    /\ ResolverLengthMismatch
    /\ pc' = "error"
    /\ UNCHANGED <<fn, x, y, tolerance, nomatch, loc, resx, resy, outx, outy, tolRead, prev, nretro, trim>>

\* ======================= C_join_left2 ===================================
\* join.c:18-22
Left2Enter ==
    /\ pc = "call" /\ fn = "C_join_left2"
    /\ ~ResolverLengthMismatch
    /\ LET ry == C_closest_dup_closest(x, y, tolerance, nomatch)
       IN /\ resy' = AsBuffer(ry)
          /\ loc' = [i |-> 0, ny |-> LENGTH(ry)]
    /\ pc' = "scan"
    /\ tolRead' = TRUE
    /\ UNCHANGED <<fn, x, y, tolerance, nomatch, resx, outx, outy, prev, nretro, trim>>

\* join.c:24-25
Left2Fill ==
    /\ pc = "scan" /\ fn = "C_join_left2"
    /\ loc.i < loc.ny
    /\ resx' = Store(resx, loc.i, loc.i + 1)
    /\ loc' = [loc EXCEPT !.i = loc.i + 1]
    /\ prev' = Step("fill", "x")
    /\ UNCHANGED <<fn, x, y, tolerance, nomatch, pc, resy, outx, outy, tolRead, nretro, trim>>

\* join.c:27-37
Left2Return ==
    /\ pc = "scan" /\ fn = "C_join_left2"
    /\ ~(loc.i < loc.ny)
    /\ \E g \in GarbageInt :
          /\ outx' = AsVector(resx, loc.ny, g)
          /\ outy' = AsVector(resy, loc.ny, g)
    /\ pc' = "done"
    /\ UNCHANGED <<fn, x, y, tolerance, nomatch, loc, resx, resy, tolRead, prev, nretro, trim>>

\* ======================= C_join_inner2 ==================================
\* join.c:50-58
Inner2Enter ==
    /\ pc = "call" /\ fn = "C_join_inner2"
    /\ ~ResolverLengthMismatch
    /\ LET ry == C_closest_dup_closest(x, y, tolerance, nomatch)
       IN /\ resy' = AsBuffer(ry)
          /\ loc' = [i |-> 0, j |-> 0, ny |-> LENGTH(ry)]
    /\ pc' = "scan"
    /\ tolRead' = TRUE
    /\ UNCHANGED <<fn, x, y, tolerance, nomatch, resx, outx, outy, prev, nretro, trim>>

\* join.c:62, the left-column entry of a surviving row
Inner2LeftEntry_Renumbered == loc.j + 1
Inner2LeftEntry == loc.i + 1

\* join.c:61-65
Inner2Keep ==
    /\ pc = "scan" /\ fn = "C_join_inner2"
    /\ loc.i < loc.ny
    /\ resy[loc.i] # nomatch
    /\ resx' = Store(resx, loc.j, Inner2LeftEntry)
    /\ resy' = Store(resy, loc.j, resy[loc.i])
    /\ loc' = [loc EXCEPT !.i = loc.i + 1, !.j = loc.j + 1]
    /\ prev' = Step("keep", "x")
    /\ UNCHANGED <<fn, x, y, tolerance, nomatch, pc, outx, outy, tolRead, nretro, trim>>

\* join.c:60-61, an unmatched row is skipped
Inner2Skip ==
    /\ pc = "scan" /\ fn = "C_join_inner2"
    /\ loc.i < loc.ny
    /\ ~(resy[loc.i] # nomatch)
    /\ loc' = [loc EXCEPT !.i = loc.i + 1]
    /\ prev' = Step("skip", "x")
    /\ UNCHANGED <<fn, x, y, tolerance, nomatch, pc, resx, resy, outx, outy, tolRead, nretro, trim>>

\* join.c:67-79
Inner2Return ==
    /\ pc = "scan" /\ fn = "C_join_inner2"
    /\ ~(loc.i < loc.ny)
    /\ \E g \in GarbageInt :
          /\ outx' = AsVector(resx, loc.j, g)
          /\ outy' = AsVector(resy, loc.j, g)
    /\ pc' = "done"
    /\ UNCHANGED <<fn, x, y, tolerance, nomatch, loc, resx, resy, tolRead, prev, nretro, trim>>

Init == Call(ScanFns)

Next ==
    \/ OuterError \/ OuterEnter
    \/ OuterDrainY \/ OuterDrainX \/ OuterWithin \/ OuterApart
    \/ OuterTruncate \/ OuterTruncate_init
    \/ LeftError \/ LeftEnter \/ LeftStep \/ LeftFill \/ LeftReturn
    \/ Outer2Enter \/ Outer2DrainY \/ Outer2DrainX \/ Outer2Within \/ Outer2Apart
    \/ Outer2Fault
    \/ Outer2Return

Spec == Init /\ [][Next]_vars

\* the joins built on the duplicate resolver
InitResolver == Call(ResolverFns)

NextResolver ==
    \/ ResolverError
    \/ Left2Enter \/ Left2Fill \/ Left2Return
    \/ Inner2Enter \/ Inner2Keep \/ Inner2Skip \/ Inner2Return

SpecResolver == InitResolver /\ [][NextResolver]_vars

\* C_join_left alone
InitLeft == Call({"C_join_left"})

NextLeft == LeftError \/ LeftEnter \/ LeftStep \/ LeftFill \/ LeftReturn

SpecLeft == InitLeft /\ [][NextLeft]_vars

\* Every call runs to completion: an enabled step is eventually taken.
FairLeft == SpecLeft /\ WF_vars(NextLeft)

\* ======================= properties =====================================
Sentinel == nomatch
Rows == 1..Len(outx)
Returned(f) == pc = "done" /\ fn = f
TolOk == LENGTH(tolerance) = lx
Paired(r) == outx[r] # Sentinel /\ outy[r] # Sentinel
Times(col, v) == Cardinality({r \in DOMAIN col : col[r] = v})
NonDecreasing(col) ==
    \A r1, r2 \in DOMAIN col :
        (r1 < r2 /\ col[r1] # Sentinel /\ col[r2] # Sentinel) => col[r1] <= col[r2]
Identity(n) == [k \in 1..n |-> k]

\* C1: the table returned by the outer join (C_join_outer, C_join_outer2)
\* holds every left index 1..n in exactly one row of the left column and
\* every right index 1..m in exactly one row of the right column.
C1_OuterCoverage ==
    (pc = "done" /\ fn \in {"C_join_outer", "C_join_outer2"} /\ TolOk) =>
        /\ \A i \in 1..lx : Times(outx, i) = 1
        /\ \A j \in 1..ly : Times(outy, j) = 1

\* C2: in the table returned by C_join_left no right index appears in the
\* right column of more than one row.
C2_LeftExclusive ==
    Returned("C_join_left") =>
        \A r1, r2 \in Rows :
            (r1 # r2 /\ outy[r1] # Sentinel) => outy[r1] # outy[r2]

\* C3: every row (i, j) of the final table of C_join_outer, C_join_outer2 and
\* C_join_left with both columns non-sentinel has |left[i] - right[j]| <=
\* tolerance[i].
C3_ToleranceSound ==
    (pc = "done" /\ fn \in {"C_join_outer", "C_join_outer2", "C_join_left"} /\ TolOk) =>
        \A r \in Rows :
            Paired(r) =>
                /\ outx[r] \in 1..lx
                /\ outy[r] \in 1..ly
                /\ fabs(x[outx[r]] - y[outy[r]]) <= tolerance[outx[r]]

\* a returned outer-join table with a retroactively completed row and a
\* pair of unequal values
C3_Witness ==
    /\ Returned("C_join_outer") /\ nretro > 0
    /\ \E r \in Rows : Paired(r) /\ x[outx[r]] # y[outy[r]]

\* C4 as stated: the left column of the inner join is renumbered 1..k.
C4_InnerRenumbered ==
    Returned("C_join_inner2") => outx = Identity(Len(outx))

\* C4 amended: the left column of the inner join holds, in ascending order,
\* the original left indices of the rows the resolver matched, and the right
\* column holds the right index the resolver gave to that left index.
C4_InnerKeepsLeftIndex ==
    Returned("C_join_inner2") =>
        LET r == C_closest_dup_closest(x, y, tolerance, nomatch)
            kept == {i \in 1..lx : r[i] # nomatch}
        IN /\ Len(outx) = Cardinality(kept)
           /\ Len(outy) = Len(outx)
           /\ \A k \in Rows : outx[k] \in kept /\ outy[k] = r[outx[k]]
           /\ \A k1, k2 \in Rows : k1 < k2 => outx[k1] < outx[k2]

\* an inner join that dropped an earlier left element and kept a later one
C4_Witness ==
    /\ Returned("C_join_inner2")
    /\ Len(outx) >= 1
    /\ outx[1] > 1

\* C5: C_join_outer, C_join_left and C_join_outer2 called with a tolerance
\* whose length differs from the length of left end in a usage error before
\* any output row is written and before any tolerance element is read.
C5_ToleranceLengthChecked ==
    (fn \in {"C_join_outer", "C_join_left", "C_join_outer2"} /\ ~TolOk /\ pc # "call") =>
        /\ pc = "error"
        /\ resx = EmptyBuf /\ resy = EmptyBuf
        /\ outx = <<>> /\ outy = <<>>
        /\ ~tolRead

\* C6: C_join_left terminates and returns exactly n rows whose left column is
\* 1..n in order, every right-column entry being the sentinel or an index in
\* 1..m, and every row position has been written before it returns.
C6_LeftShapeInv ==
    Returned("C_join_left") =>
        /\ outx = Identity(lx)
        /\ Len(outy) = lx
        /\ \A r \in 1..lx : outy[r] = NA_INTEGER \/ outy[r] \in 1..ly
        /\ DOMAIN resx = 0..(lx - 1)
        /\ DOMAIN resy = 0..(lx - 1)

C6_LeftShape ==
    /\ []C6_LeftShapeInv
    /\ (fn = "C_join_left") ~> (pc \in {"done", "error"})

\* a returned left join of a non-empty left with a match and a non-match
C6_Witness ==
    /\ Returned("C_join_left")
    /\ \E r1, r2 \in Rows : outy[r1] = NA_INTEGER /\ outy[r2] # NA_INTEGER

\* C7: in the tables returned by C_join_outer, C_join_outer2 and C_join_left
\* the non-sentinel entries of the left column, read top to bottom, are
\* non-decreasing, and so are those of the right column.
C7_ColumnsOrdered ==
    (pc = "done" /\ fn \in {"C_join_outer", "C_join_outer2", "C_join_left"} /\ TolOk) =>
        NonDecreasing(outx) /\ NonDecreasing(outy)

\* a returned outer join after a retroactive overwrite, with at least two
\* non-sentinel entries in each column
C7_Witness ==
    /\ Returned("C_join_outer") /\ nretro > 0
    /\ \E r1, r2 \in Rows : r1 < r2 /\ Paired(r1) /\ Paired(r2)

\* the premise of C8: the inputs form a diagonal chain
DiagonalChain ==
    /\ lx = ly /\ TolOk
    /\ \A i \in 1..lx : fabs(x[i] - y[i]) <= tolerance[i]
    /\ \A i \in 1..(lx - 1) :
          /\ ~(fabs(x[i + 1] - y[i]) < fabs(x[i] - y[i]))
          /\ ~(fabs(x[i] - y[i + 1]) < fabs(x[i] - y[i]))

\* C8: on a diagonal chain C_join_outer returns exactly the n rows (i, i).
C8_DiagonalChain ==
    (Returned("C_join_outer") /\ DiagonalChain) =>
        outx = Identity(lx) /\ outy = Identity(lx)

\* Scenario 5 of the design document has been joined
C8_Witness ==
    /\ Returned("C_join_outer") /\ DiagonalChain
    /\ x = <<10, 19, 30>> /\ y = <<9, 20, 31>> /\ tolerance = <<3, 3, 3>>
    /\ Len(outx) = 3

\* C9: every position C_join_outer and C_join_outer2 write in their working
\* buffers is >= 0 and < n + m, and at most n + m rows are returned.
C9_OuterBufferBound ==
    (fn \in {"C_join_outer", "C_join_outer2"}) =>
        /\ DOMAIN resx \subseteq 0..(lx + ly - 1)
        /\ DOMAIN resy \subseteq 0..(lx + ly - 1)
        /\ Len(outx) <= lx + ly

\* the output index has just been stepped back and the previous row rewritten
C9_Witness ==
    /\ fn = "C_join_outer" /\ pc = "scan" /\ nretro > 0
    /\ prev.kind = "look"
    /\ (loc.idx + 1) \in DOMAIN resx

\* a look-ahead iteration of C_join_outer: the pair was within tolerance and
\* one look-ahead distance was strictly better
LookStep ==
    /\ fn = "C_join_outer" /\ pc = "scan" /\ pc' = "scan"
    /\ loc' # loc
    /\ prev'.kind = "look"

SteppedBack == loc'.idx = loc.idx

\* C10 as stated: the previous row is overwritten exactly when the cursor
\* advanced in this step is the one advanced alone in the previous step.
C10_SameDirection ==
    [][LookStep => (SteppedBack <=> (prev.adv = prev'.adv))]_vars

\* C10 amended: the output index is stepped back and the previous row made a
\* full pairing exactly when the previous iteration was a look-ahead iteration
\* that advanced the other cursor; otherwise a fresh row with the sentinel on
\* the side that did not advance is emitted at the next output index.
C10_DirectionChange ==
    [][LookStep =>
          /\ SteppedBack <=> (prev.kind = "look" /\ prev.adv # prev'.adv)
          /\ SteppedBack =>
                /\ resx'[loc'.idx] # NA_INTEGER /\ resy'[loc'.idx] # NA_INTEGER
                /\ IF prev'.adv = "x" THEN resx'[loc'.idx] = loc'.xi
                                      ELSE resy'[loc'.idx] = loc'.yi
          /\ ~SteppedBack =>
                /\ loc'.idx = loc.idx + 1
                /\ IF prev'.adv = "x"
                   THEN resx'[loc'.idx] = loc'.xi /\ resy'[loc'.idx] = NA_INTEGER
                   ELSE resx'[loc'.idx] = NA_INTEGER /\ resy'[loc'.idx] = loc'.yi]_vars

\* both cases in one call: the output index has been stepped back, and the
\* iteration just taken looked ahead on the cursor that the iteration before
\* it had advanced alone, emitting a fresh row
C10_Witness ==
    /\ fn = "C_join_outer" /\ pc = "scan" /\ nretro > 0
    /\ prev.kind = "look"
    /\ \/ prev.adv = "x" /\ prev.path < 0
       \/ prev.adv = "y" /\ prev.path > 0
    /\ resx[loc.idx] = NA_INTEGER \/ resy[loc.idx] = NA_INTEGER

\* ---- C11 ----
\* Number of rows the scan emitted: the working-buffer positions it wrote.
EmittedRows == Cardinality(DOMAIN resx)

TrimExact ==
    LET r == EmittedRows
    IN /\ DOMAIN resx = 0..(r - 1) /\ DOMAIN resy = 0..(r - 1)
       /\ trim.len = r
       /\ trim.read = 0..(r - 1)
       /\ trim.wrote = 0..(r - 1)
       /\ \A p \in trim.read : p < lx + ly
       /\ \A p \in trim.wrote : p < r

\* C11: once C_join_outer has trimmed its working buffers, in either copy of
\* the function (join.c or init.c), the result vectors have length r, the
\* number of emitted rows, exactly positions 0..r-1 were copied, no
\* working-buffer position >= n + m was read and no result position >= r
\* was written.
C11_OuterTrim ==
    (fn = "C_join_outer" /\ trim.copy \in {"join.c", "init.c"}) => TrimExact

====
